---- MODULE Spec2Model ----
(***************************************************************************)
(* notion_translate.py: the Converter that walks a Notion page, translates *)
(* titles, headings and rich-text blocks, and marks what it has done with  *)
(* COMPLETION_MARK.  A text is a sequence of one-character strings.        *)
(***************************************************************************)
EXTENDS Integers, Sequences, FiniteSets, TLC

VARIABLES
    title,        \* Notion: page id -> title text
    node,         \* Notion: block id -> [type, rich_text, last_edited_time]
    kids,         \* Notion: page or block id -> ordered ids of its children
    next_id,      \* Notion: the id the next appended block gets
    now,          \* datetime.now(timezone.utc), in seconds
    tr,           \* the translation service: a fixed (deterministic) behaviour
    pc,           \* where the program is
    cfg,          \* create_translation, realtime, include_subpages of this run
    page_blocks,  \* convert_page: the blocks collected for this pass
    idx,          \* convert_page: position of the for loop in page_blocks
    passes,       \* convert_page calls so far, of this run of the program and of earlier ones
    ops,          \* history: translator calls and store mutations of the last handler call
    last,         \* history: the last handler call (what it handled, the store before it)
    done,         \* history: the passes completed in a row (no edit, no error between), newest first
    origin        \* history: the store the first run started on

vars == <<title, node, kids, next_id, now, tr, pc, cfg, page_blocks, idx,
          passes, ops, last, done, origin>>

-----------------------------------------------------------------------------
(* Program constants *)

MAX_TEXT_LENGTH == 2000
COMPLETION_MARK == "*"
INLINE_TYPES == {"heading_1", "heading_2", "heading_3"}
RICH_TEXT_TYPES == {"heading_1", "heading_2", "heading_3", "paragraph",
                    "bulleted_list_item", "numbered_list_item", "toggle",
                    "to_do", "quote", "callout"}
FIVE_MINUTES == 300
SLEEP_SECONDS == 30

-----------------------------------------------------------------------------
(* Bounds of the model *)

MaxPasses == 2      \* convert_page calls, over all the runs of the program
MaxKids == 3        \* children a container block starts with
MaxRichText == 2    \* text runs a heading starts with

-----------------------------------------------------------------------------
(* Text: what the Python string operations do *)

Rep(c, n) == [i \in 1..n |-> c]

\* COMPLETION_MARK in text
HasMark(text) == \E i \in 1..Len(text) : text[i] = COMPLETION_MARK

\* str.strip(): the text without its leading and trailing whitespace
Strip(text) ==
    IF \A i \in 1..Len(text) : text[i] = " " THEN <<>>
    ELSE LET first == CHOOSE i \in 1..Len(text) :
                          text[i] # " " /\ \A j \in 1..(i - 1) : text[j] = " "
             final == CHOOSE i \in 1..Len(text) :
                          text[i] # " " /\ \A j \in (i + 1)..Len(text) : text[j] = " "
         IN SubSeq(text, first, final)

\* str.split(COMPLETION_MARK): the pieces between the marks, in order
Split(text) ==
    LET m == {i \in 1..Len(text) : text[i] = COMPLETION_MARK}
        n == Cardinality(m)
        pos(k) == IF k = 0 THEN 0
                  ELSE IF k = n + 1 THEN Len(text) + 1
                  ELSE CHOOSE i \in m : Cardinality({j \in m : j < i}) = k - 1
    IN [k \in 1..(n + 1) |-> SubSeq(text, pos(k - 1) + 1, pos(k) - 1)]

Digits == <<"0", "1", "2", "3", "4", "5", "6", "7", "8", "9">>

RECURSIVE DecStr(_)
DecStr(n) == IF n < 10 THEN <<Digits[n + 1]>>
             ELSE DecStr(n \div 10) \o <<Digits[(n % 10) + 1]>>

\* f"{n:04}": decimal, zero-padded to at least four digits
Format04(n) == LET d == DecStr(n)
               IN IF Len(d) < 4 THEN Rep("0", 4 - Len(d)) \o d ELSE d

\* int(text) of a text of decimal digits
RECURSIVE ParseInt(_)
ParseInt(text) ==
    IF text = <<>> THEN 0
    ELSE ParseInt(SubSeq(text, 1, Len(text) - 1)) * 10
         + (CHOOSE d \in 0..9 : Digits[d + 1] = text[Len(text)])

\* f" {COMPLETION_MARK} ": the separator of the title and heading layout
DivisionText == <<" ", COMPLETION_MARK, " ">>

\* f" {COMPLETION_MARK} {len(source_text):04}": the suffix of a translation child
MarkText(source_text) == <<" ", COMPLETION_MARK, " ">> \o Format04(Len(source_text))

-----------------------------------------------------------------------------
(* The translation service.  tr.pad lengthens the answer and tr.mark makes *)
(* it contain the mark; the same tr gives the same answer for a text.      *)

TranslateChar(c) == IF c = "a" THEN "x" ELSE IF c = "b" THEN "y" ELSE c

Translate(t, text) ==
    (IF t.mark THEN <<COMPLETION_MARK>> ELSE <<>>)
    \o [i \in 1..Len(text) |-> TranslateChar(text[i])]
    \o Rep("x", t.pad)

-----------------------------------------------------------------------------
(* Notion, as NotionClient reads and writes it.  st is the store:          *)
(* [title, node, kids, next_id].                                           *)

\* one element of the "results" of a children request
Block(st, id) == [id |-> id,
                  type |-> st.node[id].type,
                  rich_text |-> st.node[id].rich_text,
                  last_edited_time |-> st.node[id].last_edited_time]

\* get_some_blocks, all the pages of it: the children of block_id, in order
GetSomeBlocks(st, block_id) ==
    [i \in 1..Len(st.kids[block_id]) |-> Block(st, st.kids[block_id][i])]

\* get_blocks: the for loop runs over the list it extends
RECURSIVE GetBlocks(_, _, _), ExtendBlocks(_, _, _, _), ExtendBlocks_Always(_, _, _, _)
\* as ExtendBlocks, without the test of include_subpages
ExtendBlocks_Always(st, blocks, i, include_subpages) ==
    IF i > Len(blocks) THEN blocks
    ELSE IF blocks[i].type = "child_page"
         THEN ExtendBlocks_Always(st, blocks \o GetBlocks(st, blocks[i].id, include_subpages),
                                  i + 1, include_subpages)
         ELSE ExtendBlocks_Always(st, blocks, i + 1, include_subpages)
ExtendBlocks(st, blocks, i, include_subpages) ==
    IF i > Len(blocks) THEN blocks
    ELSE IF blocks[i].type = "child_page" /\ include_subpages
         THEN ExtendBlocks(st, blocks \o GetBlocks(st, blocks[i].id, include_subpages),
                           i + 1, include_subpages)
         ELSE ExtendBlocks(st, blocks, i + 1, include_subpages)
GetBlocks(st, block_id, include_subpages) ==
    ExtendBlocks(st, GetSomeBlocks(st, block_id), 1, include_subpages)

\* get_text: the plain texts of a rich text array, concatenated
RECURSIVE GetText(_)
GetText(rich_text) ==
    IF rich_text = <<>> THEN <<>> ELSE Head(rich_text) \o GetText(Tail(rich_text))

GetBlockText(block) ==
    IF block.type \in RICH_TEXT_TYPES THEN GetText(block.rich_text) ELSE <<>>

GetTitleText(st, page_id) == st.title[page_id]

UpdateTitle(st, page_id, text) == [st EXCEPT !.title[page_id] = text]

\* PATCH of a block: its rich text is replaced, Notion stamps the edit
UpdateBlock(st, block_id, rich_text, time) ==
    [st EXCEPT !.node[block_id].rich_text = rich_text,
               !.node[block_id].last_edited_time = time]

\* DELETE of a block: it leaves its parent's children
DeleteBlock(st, block_id) ==
    [st EXCEPT !.kids = [p \in DOMAIN st.kids |->
                            SelectSeq(st.kids[p], LAMBDA c : c # block_id)]]

\* PATCH of the children of a block: one new block, last
AppendBlockChildren(st, block_id, type, rich_text, time) ==
    LET new == st.next_id
    IN [st EXCEPT
          !.node = [i \in DOMAIN st.node \cup {new} |->
                       IF i = new
                       THEN [type |-> type, rich_text |-> rich_text,
                             last_edited_time |-> time]
                       ELSE st.node[i]],
          !.kids = [i \in DOMAIN st.kids \cup {new} |->
                       IF i = new THEN <<>>
                       ELSE IF i = block_id THEN Append(st.kids[i], new)
                       ELSE st.kids[i]],
          !.next_id = new + 1]

\* what a handler call issued, in order
Op(name, id, arg) == [op |-> name, id |-> id, arg |-> arg]
Mutations == {"update_title", "update_block", "delete_block", "append_block_children"}

\* what a handler call leaves: the store, the calls it made, whether it raised
Result(st, issued, raised) == [st |-> st, ops |-> issued, raised |-> raised]

-----------------------------------------------------------------------------
(* Converter *)

\* f"{converted_text}{division_text}{source_text}"
CreatedTitle(translated, source_text) == translated \o DivisionText \o source_text

\* as RevertedTitle, with the piece before the mark (index 0) taken
RevertedTitle_Head(source_text) == Strip(Split(source_text)[1])

\* source_text.split(COMPLETION_MARK)[1].strip()
RevertedTitle(source_text) == Strip(Split(source_text)[2])

\* handle_page_block.  ok: the translator's response parses
HandlePageBlock(st, page_id, create_translation, trn, ok) ==
    LET source_text == Strip(GetTitleText(st, page_id))
    IN IF create_translation
       THEN IF HasMark(source_text) THEN Result(st, <<>>, FALSE)
            ELSE IF ~ok
                 THEN Result(st, <<Op("translate", page_id, source_text)>>, TRUE)
            ELSE LET converted_text == CreatedTitle(Translate(trn, source_text), source_text)
                 IN Result(UpdateTitle(st, page_id, converted_text),
                           <<Op("translate", page_id, source_text),
                             Op("update_title", page_id, converted_text)>>,
                           FALSE)
       ELSE IF HasMark(source_text)
            THEN LET converted_text == RevertedTitle(source_text)
                 IN Result(UpdateTitle(st, page_id, converted_text),
                           <<Op("update_title", page_id, converted_text)>>, FALSE)
            ELSE Result(st, <<>>, FALSE)

\* the realtime filter of handle_normal_block
TooOld(block, time) == block.last_edited_time + FIVE_MINUTES < time

\* as InlineCreate, without the return on a text that has the mark
InlineCreate_NoCheck(st, block, source_text, time, trn, ok) ==
    IF ~ok THEN Result(st, <<Op("translate", block.id, source_text)>>, TRUE)
    ELSE LET translated == Translate(trn, source_text)
             rich_text == block.rich_text \o <<DivisionText, translated>>
         IN Result(UpdateBlock(st, block.id, rich_text, time),
                   <<Op("translate", block.id, source_text),
                     Op("update_block", block.id, rich_text)>>,
                   FALSE)

\* as InlineCreate, with the two runs written in place of the block's own
InlineCreate_Overwrite(st, block, source_text, time, trn, ok) ==
    IF HasMark(source_text) THEN Result(st, <<>>, FALSE)
    ELSE IF ~ok THEN Result(st, <<Op("translate", block.id, source_text)>>, TRUE)
    ELSE LET translated == Translate(trn, source_text)
             rich_text == <<DivisionText, translated>>
         IN Result(UpdateBlock(st, block.id, rich_text, time),
                   <<Op("translate", block.id, source_text),
                     Op("update_block", block.id, rich_text)>>,
                   FALSE)

\* handle_normal_block, a heading, create: two runs are appended
InlineCreate(st, block, source_text, time, trn, ok) ==
    IF HasMark(source_text) THEN Result(st, <<>>, FALSE)
    ELSE IF ~ok THEN Result(st, <<Op("translate", block.id, source_text)>>, TRUE)
    ELSE LET translated == Translate(trn, source_text)
             rich_text == block.rich_text \o <<DivisionText, translated>>
         IN Result(UpdateBlock(st, block.id, rich_text, time),
                   <<Op("translate", block.id, source_text),
                     Op("update_block", block.id, rich_text)>>,
                   FALSE)

\* as CutAtMarks, with the run that has the mark kept (originals[:turn + 1])
RECURSIVE CutAtMarks_KeepMark(_, _, _)
CutAtMarks_KeepMark(items, kept, turn) ==
    IF turn > Len(items) THEN kept
    ELSE IF HasMark(items[turn])
         THEN CutAtMarks_KeepMark(items,
                                  SubSeq(kept, 1, IF turn < Len(kept)
                                                  THEN turn ELSE Len(kept)),
                                  turn + 1)
         ELSE CutAtMarks_KeepMark(items, kept, turn + 1)

\* the loop of the heading revert: every run with the mark cuts the runs kept
\* so far to those before its place
RECURSIVE CutAtMarks(_, _, _)
CutAtMarks(items, kept, turn) ==
    IF turn > Len(items) THEN kept
    ELSE IF HasMark(items[turn])
         THEN CutAtMarks(items,
                         SubSeq(kept, 1, IF turn - 1 < Len(kept)
                                         THEN turn - 1 ELSE Len(kept)),
                         turn + 1)
         ELSE CutAtMarks(items, kept, turn + 1)

\* handle_normal_block, a heading, revert
InlineRevert(st, block, source_text, time) ==
    IF HasMark(source_text)
    THEN LET rich_text == CutAtMarks(block.rich_text, block.rich_text, 1)
         IN Result(UpdateBlock(st, block.id, rich_text, time),
                   <<Op("update_block", block.id, rich_text)>>, FALSE)
    ELSE Result(st, <<>>, FALSE)

\* the children of a block whose text has the mark, in order
MarkedChildren(children) == SelectSeq(children, LAMBDA c : HasMark(GetBlockText(c)))

\* int(child_text.split(COMPLETION_MARK)[-1].strip())
SourceLengthIn(child_text) ==
    LET splitted_texts == Split(child_text)
    IN ParseInt(Strip(splitted_texts[Len(splitted_texts)]))

\* delete_block for each of the blocks, in order
RECURSIVE DeleteAll(_, _)
DeleteAll(st, blocks) ==
    IF blocks = <<>> THEN st ELSE DeleteAll(DeleteBlock(st, Head(blocks).id), Tail(blocks))

DeleteOps(blocks) == [i \in 1..Len(blocks) |-> Op("delete_block", blocks[i].id, <<>>)]

\* as FinalText, with the translation cut at MAX_TEXT_LENGTH
FinalText_CutAtMax(translated, mark_text) ==
    (IF Len(translated) > MAX_TEXT_LENGTH
     THEN SubSeq(translated, 1, MAX_TEXT_LENGTH)
     ELSE translated) \o mark_text

\* translated[:maximum_content_length] + mark_text
FinalText(translated, mark_text) ==
    LET maximum_content_length == MAX_TEXT_LENGTH - Len(mark_text)
    IN (IF Len(translated) > maximum_content_length
        THEN SubSeq(translated, 1, maximum_content_length)
        ELSE translated) \o mark_text

\* as LaterMarked, with nothing to delete
LaterMarked_None(marked) == <<>>

\* the marked children after the first: the else branch of the scan deletes them
LaterMarked(marked) == IF marked = <<>> THEN <<>> ELSE Tail(marked)

\* as UpToDate, with <= for ==
UpToDate_AtMost(source_text, before_translation_child) ==
    Len(source_text) <= SourceLengthIn(GetBlockText(before_translation_child))

\* len(source_text) == before_source_text_length
UpToDate(source_text, before_translation_child) ==
    Len(source_text) = SourceLengthIn(GetBlockText(before_translation_child))

\* as ContainerCreate, with the translation appended also where a marked
\* child was found
ContainerCreate_Append(st, block, source_text, time, trn, ok) ==
    LET mark_text == MarkText(source_text)
        children == GetBlocks(st, block.id, FALSE)
        marked == MarkedChildren(children)
        found == marked # <<>>
        later == LaterMarked(marked)
        st1 == DeleteAll(st, later)
        deletes == DeleteOps(later)
    IN IF found /\ UpToDate(source_text, Head(marked))
       THEN Result(st1, deletes, FALSE)
       ELSE IF ~ok
            THEN Result(st1, deletes \o <<Op("translate", block.id, source_text)>>, TRUE)
       ELSE LET final_text == FinalText(Translate(trn, source_text), mark_text)
            IN Result(AppendBlockChildren(st1, block.id, block.type,
                                          <<final_text>>, time),
                      deletes \o <<Op("translate", block.id, source_text),
                                   Op("append_block_children", block.id, <<final_text>>)>>,
                      FALSE)

\* handle_normal_block, a block with a translation child, create
ContainerCreate(st, block, source_text, time, trn, ok) ==
    LET mark_text == MarkText(source_text)
        children == GetBlocks(st, block.id, FALSE)
        marked == MarkedChildren(children)
        found == marked # <<>>
        later == LaterMarked(marked)
        st1 == DeleteAll(st, later)
        deletes == DeleteOps(later)
    IN IF found /\ UpToDate(source_text, Head(marked))
       THEN Result(st1, deletes, FALSE)
       ELSE IF ~ok
            THEN Result(st1, deletes \o <<Op("translate", block.id, source_text)>>, TRUE)
       ELSE LET final_text == FinalText(Translate(trn, source_text), mark_text)
            IN IF found
               THEN Result(UpdateBlock(st1, Head(marked).id, <<final_text>>, time),
                           deletes \o <<Op("translate", block.id, source_text),
                                        Op("update_block", Head(marked).id, <<final_text>>)>>,
                           FALSE)
               ELSE Result(AppendBlockChildren(st1, block.id, block.type,
                                               <<final_text>>, time),
                           deletes \o <<Op("translate", block.id, source_text),
                                        Op("append_block_children", block.id, <<final_text>>)>>,
                           FALSE)

\* as ContainerRevert, with nothing deleted
ContainerRevert_None(st, block) == Result(st, <<>>, FALSE)

\* as ContainerRevert, without the test for the mark
ContainerRevert_All(st, block) ==
    LET children == GetBlocks(st, block.id, FALSE)
    IN Result(DeleteAll(st, children), DeleteOps(children), FALSE)

\* as ContainerRevert, with the scan stopped at the first marked child
ContainerRevert_First(st, block) ==
    LET marked == MarkedChildren(GetBlocks(st, block.id, FALSE))
        first == IF marked = <<>> THEN <<>> ELSE <<Head(marked)>>
    IN Result(DeleteAll(st, first), DeleteOps(first), FALSE)

\* handle_normal_block, a block with a translation child, revert
ContainerRevert(st, block) ==
    LET marked == MarkedChildren(GetBlocks(st, block.id, FALSE))
    IN Result(DeleteAll(st, marked), DeleteOps(marked), FALSE)

\* handle_normal_block
HandleNormalBlock(st, block, realtime, create_translation, time, trn, ok) ==
    LET source_text == Strip(GetBlockText(block))
    IN IF realtime /\ TooOld(block, time) THEN Result(st, <<>>, FALSE)
       ELSE IF source_text = <<>> THEN Result(st, <<>>, FALSE)
       ELSE IF block.type \in INLINE_TYPES
            THEN IF create_translation
                 THEN InlineCreate(st, block, source_text, time, trn, ok)
                 ELSE InlineRevert(st, block, source_text, time)
            ELSE IF create_translation
                 THEN ContainerCreate(st, block, source_text, time, trn, ok)
                 ELSE ContainerRevert(st, block)

-----------------------------------------------------------------------------
(* The pages the program is run on.  The mark is reserved: at the start no *)
(* title and no text the user wrote has it, and a child that has it has    *)
(* the layout ContainerCreate writes (a crash or a second running instance *)
(* may have left several).                                                 *)

Root == 0
FirstNewId == 20

TitleTexts == {<<" ">>, <<"a">>, <<" ", "a", "b", " ">>}
RunTexts == {<<"a">>, <<" ">>}
SourceTexts == {<<" ">>, <<"a">>, <<" ", "a", "b">>, <<"b", "a", "b">>}
EditTexts == {<<" ">>, <<"b", "a">>}

\* the translators: a short answer, an answer with the mark in it, and a long
\* answer that with the suffix of a translation child is one short of
\* MAX_TEXT_LENGTH, equal to it or one over it (sources of length 1, 2, 3)
Plain == [pad |-> 0, mark |-> FALSE]
Translators == {Plain, [pad |-> 0, mark |-> TRUE],
                [pad |-> MAX_TEXT_LENGTH - 9, mark |-> FALSE]}

\* a translator whose answer for a text of one character is MAX_TEXT_LENGTH
\* long, and longer for a longer text
Longest == [pad |-> MAX_TEXT_LENGTH - 1, mark |-> FALSE]

\* a translation child's text for a source of length n
ChildFor(n) == <<"x">> \o MarkText(Rep("a", n))
ChildTexts == {<<"c">>, ChildFor(1), ChildFor(2)}

SeqsUpTo(S, n) == UNION {[1..k -> S] : k \in 0..n}

\* the children a block starts with: up to two of any kind, and after two
\* of any kind more translation children, up to MaxKids in all
ChildLists ==
    SeqsUpTo(ChildTexts, 2)
    \cup {p \o Rep(ChildFor(1), k) : p \in [1..2 -> ChildTexts], k \in 1..(MaxKids - 2)}

Node(type, rich_text, time) ==
    [type |-> type, rich_text |-> rich_text, last_edited_time |-> time]

\* a page with nothing but its title
EmptyPage(title_text) ==
    [title |-> (Root :> title_text),
     node |-> <<>>,
     kids |-> (Root :> <<>>),
     next_id |-> FirstNewId]

\* a page with a heading and a divider
HeadingPage(rich_text, time) ==
    [title |-> (Root :> <<"a">>),
     node |-> (1 :> Node("heading_1", rich_text, time) @@ 2 :> Node("divider", <<>>, 0)),
     kids |-> (Root :> <<1, 2>> @@ 1 :> <<>> @@ 2 :> <<>>),
     next_id |-> FirstNewId]

\* a page with a paragraph that has children
ParagraphPage(source_text, child_texts, time) ==
    LET n == Len(child_texts)
    IN [title |-> (Root :> <<"a">>),
        node |-> [i \in {3} \cup (11..(10 + n)) |->
                    IF i = 3 THEN Node("paragraph", <<source_text>>, time)
                    ELSE Node("paragraph", <<child_texts[i - 10]>>, 0)],
        kids |-> [i \in {Root, 3} \cup (11..(10 + n)) |->
                    IF i = Root THEN <<3>>
                    ELSE IF i = 3 THEN [k \in 1..n |-> 10 + k]
                    ELSE <<>>],
        next_id |-> FirstNewId]

\* a page with a sub-page (4) that has a sub-page (5)
NestedPages(title_text, time) ==
    [title |-> (Root :> <<"a">> @@ 4 :> title_text @@ 5 :> <<"b">>),
     node |-> (4 :> Node("child_page", <<>>, time) @@ 5 :> Node("child_page", <<>>, time)
               @@ 1 :> Node("heading_1", <<<<"a">>>>, time)
               @@ 3 :> Node("paragraph", <<<<"a", "b">>>>, time)
               @@ 6 :> Node("heading_2", <<<<"b">>>>, time)),
     kids |-> (Root :> <<4, 1>> @@ 4 :> <<5, 3>> @@ 5 :> <<6>>
               @@ 1 :> <<>> @@ 3 :> <<>> @@ 6 :> <<>>),
     next_id |-> FirstNewId]

StartTime == FIVE_MINUTES + 1

\* the store and the translator the program starts with.  With the short
\* translator: every page, a block last edited long ago (which differs from
\* a fresh one under realtime only) with at most two children.  With the
\* translator that puts the mark in its answer: the pages of one block, a
\* paragraph with at most one child.  With the long translator: the page of
\* a title and the fresh paragraph with at most one child.  With the
\* longest: the page of a title and the fresh heading.
Initial ==
    {<<EmptyPage(t), x>> : t \in TitleTexts, x \in Translators \cup {Longest}}
    \cup {<<HeadingPage(r, e), x>> :
        r \in SeqsUpTo(RunTexts, MaxRichText), e \in {0, StartTime},
        x \in {Plain, [pad |-> 0, mark |-> TRUE]}}
    \cup {<<HeadingPage(r, StartTime), Longest>> : r \in SeqsUpTo(RunTexts, MaxRichText)}
    \cup {<<ParagraphPage(s, c, StartTime), Plain>> : s \in SourceTexts, c \in ChildLists}
    \cup {<<ParagraphPage(s, c, 0), Plain>> :
        s \in SourceTexts, c \in SeqsUpTo(ChildTexts, 2)}
    \cup {<<ParagraphPage(s, c, e), [pad |-> 0, mark |-> TRUE]>> :
        s \in SourceTexts, c \in SeqsUpTo(ChildTexts, 1), e \in {0, StartTime}}
    \cup {<<ParagraphPage(s, c, StartTime), [pad |-> MAX_TEXT_LENGTH - 9, mark |-> FALSE]>> :
        s \in SourceTexts, c \in SeqsUpTo(ChildTexts, 1)}
    \cup {<<NestedPages(t, e), Plain>> : t \in TitleTexts, e \in {0, StartTime}}

-----------------------------------------------------------------------------
(* The program *)

Store == [title |-> title, node |-> node, kids |-> kids, next_id |-> next_id]

NoBlock == [id |-> Root, type |-> "none", rich_text |-> <<>>, last_edited_time |-> 0]
NoCall == [kind |-> "none", block |-> NoBlock, cfg |-> <<>>, pre |-> <<>>,
           time |-> 0, raised |-> FALSE]

Init ==
    /\ \E i \in Initial :
          /\ title = i[1].title
          /\ node = i[1].node
          /\ kids = i[1].kids
          /\ next_id = i[1].next_id
          /\ tr = i[2]
    /\ now = StartTime
    /\ pc = "idle"
    /\ cfg = [create_translation |-> TRUE, realtime |-> FALSE, include_subpages |-> FALSE]
    /\ page_blocks = <<>>
    /\ idx = 1
    /\ passes = 0
    /\ ops = <<>>
    /\ last = NoCall
    /\ done = <<>>
    /\ origin = Store

\* __main__: the answers to the prompts; realtime is asked for in create mode
\* only.  include_subpages is answered y only where the page has a sub-page
\* (elsewhere the answer changes nothing).
Main(create_translation, realtime, include_subpages) ==
    /\ pc \in {"idle", "raised"}
    /\ passes < MaxPasses
    /\ realtime => create_translation
    /\ include_subpages => \E i \in DOMAIN node : node[i].type = "child_page"
    /\ cfg' = [create_translation |-> create_translation, realtime |-> realtime,
               include_subpages |-> include_subpages]
    /\ pc' = "convert_page"
    /\ UNCHANGED <<title, node, kids, next_id, now, tr, page_blocks, idx, passes,
                   ops, last, done, origin>>

\* convert_page: the blocks are collected before anything is handled
ConvertPage ==
    /\ pc = "convert_page"
    /\ page_blocks' = GetBlocks(Store, Root, cfg.include_subpages)
    /\ passes' = passes + 1
    /\ idx' = 1
    /\ pc' = "title"
    /\ UNCHANGED <<title, node, kids, next_id, now, tr, cfg, ops, last, done, origin>>

\* as Returned, with the exception caught and the loop going on
Returned_Caught(kind, block, r, next_pc) ==
    /\ title' = r.st.title
    /\ node' = r.st.node
    /\ kids' = r.st.kids
    /\ next_id' = r.st.next_id
    /\ ops' = r.ops
    /\ last' = [kind |-> kind, block |-> block, cfg |-> cfg, pre |-> Store,
                time |-> now, raised |-> r.raised]
    /\ done' = IF r.raised THEN <<>> ELSE done
    /\ pc' = next_pc

\* a handler call returned r, or raised
Returned(kind, block, r, next_pc) ==
    /\ title' = r.st.title
    /\ node' = r.st.node
    /\ kids' = r.st.kids
    /\ next_id' = r.st.next_id
    /\ ops' = r.ops
    /\ last' = [kind |-> kind, block |-> block, cfg |-> cfg, pre |-> Store,
                time |-> now, raised |-> r.raised]
    /\ done' = IF r.raised THEN <<>> ELSE done
    /\ pc' = IF r.raised THEN "raised" ELSE next_pc

\* convert_page: the title of the page itself
HandleRootPage ==
    /\ pc = "title"
    /\ \E ok \in BOOLEAN :
          Returned("page", [NoBlock EXCEPT !.id = Root],
                   HandlePageBlock(Store, Root, cfg.create_translation, tr, ok),
                   "blocks")
    /\ UNCHANGED <<now, tr, cfg, page_blocks, idx, passes, origin>>

\* convert_page: one turn of the loop over the collected blocks
HandleBlock ==
    /\ pc = "blocks"
    /\ idx <= Len(page_blocks)
    /\ LET block == page_blocks[idx]
       IN \E ok \in BOOLEAN :
             IF block.type = "child_page"
             THEN Returned("page", block,
                           HandlePageBlock(Store, block.id, cfg.create_translation, tr, ok),
                           "blocks")
             ELSE Returned("normal", block,
                           HandleNormalBlock(Store, block, cfg.realtime,
                                             cfg.create_translation, now, tr, ok),
                           "blocks")
    /\ idx' = idx + 1
    /\ UNCHANGED <<now, tr, cfg, page_blocks, passes, origin>>

\* convert_page returns: to the sleep of the realtime loop, or the program ends
EndOfPass ==
    /\ pc = "blocks"
    /\ idx > Len(page_blocks)
    /\ done' = SubSeq(<<[cfg |-> cfg, st |-> Store, time |-> now,
                         blocks |-> page_blocks]>> \o done,
                      1, IF Len(done) = 0 THEN 1 ELSE 2)
    /\ pc' = IF cfg.realtime THEN "sleep" ELSE "idle"
    /\ UNCHANGED <<title, node, kids, next_id, now, tr, cfg, page_blocks, idx,
                   passes, ops, last, origin>>

\* as Sleep, without the delay
Sleep_NoDelay ==
    /\ pc = "sleep"
    /\ passes < MaxPasses
    /\ now' = now
    /\ pc' = "convert_page"
    /\ UNCHANGED <<title, node, kids, next_id, tr, cfg, page_blocks, idx,
                   passes, ops, last, done, origin>>

\* time.sleep(30), and the loop turns
Sleep ==
    /\ pc = "sleep"
    /\ passes < MaxPasses
    /\ now' = now + SLEEP_SECONDS
    /\ pc' = "convert_page"
    /\ UNCHANGED <<title, node, kids, next_id, tr, cfg, page_blocks, idx,
                   passes, ops, last, done, origin>>

\* the user rewrites the text of a block of the page, once after a pass
UserEdit(id, text) ==
    /\ pc \in {"idle", "sleep"}
    /\ done # <<>>
    /\ node[id].type = "paragraph"
    /\ node[id].rich_text # <<text>>
    /\ node' = [node EXCEPT ![id].rich_text = <<text>>, ![id].last_edited_time = now]
    /\ ops' = <<>>
    /\ last' = NoCall
    /\ done' = <<>>
    /\ UNCHANGED <<title, kids, next_id, now, tr, pc, cfg, page_blocks, idx, passes,
                   origin>>

Next ==
    \/ \E c \in BOOLEAN, r \in BOOLEAN, i \in BOOLEAN : Main(c, r, i)
    \/ ConvertPage
    \/ HandleRootPage
    \/ HandleBlock
    \/ EndOfPass
    \/ Sleep
    \/ \E i \in 1..Len(kids[Root]), text \in EditTexts : UserEdit(kids[Root][i], text)

Spec == Init /\ [][Next]_vars

-----------------------------------------------------------------------------
(* What the claims speak of, read from the last handler call *)

IsMutation(o) == o.op \in Mutations
Issued(name) == {i \in 1..Len(ops) : ops[i].op = name}

\* the last call was handle_normal_block on a block whose translation is a child
OnContainer == /\ last.kind = "normal"
               /\ last.block.type \in RICH_TEXT_TYPES \ INLINE_TYPES
\* the last call was handle_normal_block on a heading
OnHeading == last.kind = "normal" /\ last.block.type \in INLINE_TYPES
OnPage == last.kind = "page"

LastSource == Strip(GetBlockText(last.block))
LastSkippedAsOld == last.cfg.realtime /\ TooOld(last.block, last.time)

\* the marked children of the handled block before the call and after it
MarkedBefore == MarkedChildren(GetBlocks(last.pre, last.block.id, FALSE))
MarkedAfter == MarkedChildren(GetBlocks(Store, last.block.id, FALSE))

-----------------------------------------------------------------------------
(* C1: two create passes in a row (realtime off, the same answers, no edit *)
(* and no error between them) leave the store as the first of them left it *)
C1_CreateTwice ==
    (/\ Len(done) = 2
     /\ done[1].cfg = done[2].cfg
     /\ done[1].cfg.create_translation
     /\ ~done[1].cfg.realtime)
    => done[1].st = done[2].st

\* a second create pass has ended on a store the first one had written to
C1_Witness ==
    /\ Len(done) = 2
    /\ done[1].cfg = done[2].cfg
    /\ done[1].cfg.create_translation /\ ~done[1].cfg.realtime
    /\ pc = "idle"
    /\ HasMark(title[Root])
    /\ \E i \in DOMAIN node : i >= FirstNewId \/ Len(node[i].rich_text) > MaxRichText

-----------------------------------------------------------------------------
(* C2, as claimed: a title that revert mode has rewritten is the title the *)
(* page started with, whitespace at its ends included.  Stated of a title  *)
(* that is not all whitespace and of a translation without the mark, where *)
(* neither C7 nor the reserved mark is in play.                            *)
C2_RevertRestoresTitleExactly ==
    (/\ OnPage
     /\ ~last.cfg.create_translation
     /\ HasMark(last.pre.title[last.block.id])
     /\ Strip(origin.title[last.block.id]) # <<>>
     /\ ~HasMark(Translate(tr, Strip(origin.title[last.block.id]))))
    => title[last.block.id] = origin.title[last.block.id]

(* C2, amended: when the translation of the title has no mark in it, a     *)
(* title that revert mode has rewritten is the title the page started      *)
(* with, without the whitespace at its ends                                *)
C2_RevertRestoresStrippedTitle ==
    (/\ OnPage
     /\ ~last.cfg.create_translation
     /\ HasMark(last.pre.title[last.block.id])
     /\ ~HasMark(Translate(tr, Strip(origin.title[last.block.id]))))
    => title[last.block.id] = Strip(origin.title[last.block.id])

\* revert mode has rewritten a title that had whitespace at its ends
C2_Witness ==
    /\ OnPage
    /\ ~last.cfg.create_translation
    /\ HasMark(last.pre.title[last.block.id])
    /\ ~HasMark(Translate(tr, Strip(origin.title[last.block.id])))
    /\ origin.title[last.block.id] = <<" ", "a", "b", " ">>
    /\ title[last.block.id] = <<"a", "b">>

-----------------------------------------------------------------------------
\* create mode has handled a block with text and two or more marked children
C3_Case ==
    /\ OnContainer
    /\ last.cfg.create_translation
    /\ ~last.raised
    /\ LastSource # <<>>
    /\ Len(MarkedBefore) >= 2

(* C3, as claimed: create mode, on a block with text and two or more       *)
(* marked children, leaves the first of them as the only marked child: as  *)
(* it was if the length in it is that of the source, and else with the     *)
(* translation followed by the suffix of the source's length               *)
C3_OneMarkedChildLeft ==
    C3_Case =>
        /\ Len(MarkedAfter) = 1
        /\ MarkedAfter[1].id = MarkedBefore[1].id
        /\ MarkedAfter[1].rich_text =
              IF SourceLengthIn(GetBlockText(MarkedBefore[1])) = Len(LastSource)
              THEN MarkedBefore[1].rich_text
              ELSE <<Translate(tr, LastSource) \o MarkText(LastSource)>>

(* C3, amended: the same of a block the realtime filter does not skip,     *)
(* with the translation cut so that it and the suffix fit MAX_TEXT_LENGTH  *)
C3_OneMarkedChildLeftUnlessSkipped ==
    (C3_Case /\ ~LastSkippedAsOld) =>
        /\ Len(MarkedAfter) = 1
        /\ MarkedAfter[1].id = MarkedBefore[1].id
        /\ \A i \in 2..Len(MarkedBefore) :
              \A k \in 1..Len(kids[last.block.id]) :
                 kids[last.block.id][k] # MarkedBefore[i].id
        /\ MarkedAfter[1].rich_text =
              IF SourceLengthIn(GetBlockText(MarkedBefore[1])) = Len(LastSource)
              THEN MarkedBefore[1].rich_text
              ELSE LET translated == Translate(tr, LastSource)
                       room == MAX_TEXT_LENGTH - (Len(Format04(Len(LastSource))) + 3)
                   IN <<SubSeq(translated, 1,
                               IF Len(translated) > room THEN room ELSE Len(translated))
                        \o <<" ", COMPLETION_MARK, " ">> \o Format04(Len(LastSource))>>

\* three marked children, a source of another length: two deleted, one rewritten
C3_Witness ==
    /\ C3_Case /\ ~LastSkippedAsOld
    /\ Len(MarkedBefore) = 3
    /\ SourceLengthIn(GetBlockText(MarkedBefore[1])) # Len(LastSource)
    /\ Cardinality(Issued("delete_block")) = 2
    /\ Len(MarkedAfter) = 1

-----------------------------------------------------------------------------
\* create mode has handled a block that had one translation child
C4_Case ==
    /\ OnContainer
    /\ last.cfg.create_translation
    /\ Len(MarkedBefore) = 1

C4_LengthDiffers == Len(LastSource) # SourceLengthIn(GetBlockText(MarkedBefore[1]))

\* the translator was called, and its answer written over the translation child
C4_Translated == Issued("translate") # {}
C4_Rewritten ==
    \E i \in Issued("update_block") :
       /\ ops[i].id = MarkedBefore[1].id
       /\ node[MarkedBefore[1].id].rich_text = ops[i].arg

(* C4, as claimed: on a block with a translation child, create mode calls  *)
(* the translator and rewrites the child exactly when the length of the    *)
(* stripped source is not the length in the child; when it is, nothing is  *)
(* called and nothing written                                              *)
C4_RetranslatesIffLengthDiffers ==
    C4_Case =>
        /\ C4_Translated <=> C4_LengthDiffers
        /\ ~last.raised => (C4_Rewritten <=> C4_LengthDiffers)
        /\ ~C4_LengthDiffers => ops = <<>>

(* C4, amended: the same of a block whose stripped text is not empty and   *)
(* which the realtime filter does not skip                                 *)
C4_RetranslatesIffLengthDiffersUnlessSkipped ==
    (C4_Case /\ LastSource # <<>> /\ ~LastSkippedAsOld) =>
        /\ C4_Translated <=> C4_LengthDiffers
        /\ ~last.raised => (C4_Rewritten <=> C4_LengthDiffers)
        /\ ~C4_LengthDiffers => ops = <<>> /\ Store = last.pre

\* the user has put another text of the same length: nothing is called
C4_Witness ==
    /\ C4_Case /\ LastSource # <<>> /\ ~LastSkippedAsOld
    /\ last.block.rich_text # origin.node[last.block.id].rich_text
    /\ MarkedBefore[1].id >= FirstNewId
    /\ ~C4_LengthDiffers
    /\ ops = <<>>

-----------------------------------------------------------------------------
\* create mode has stored a translation in a child, new or old
C5_Case ==
    /\ OnContainer
    /\ last.cfg.create_translation
    /\ Issued("update_block") \cup Issued("append_block_children") # {}

C5_Stored ==
    GetText(node[IF Issued("append_block_children") # {}
                 THEN last.pre.next_id ELSE MarkedBefore[1].id].rich_text)
C5_Suffix == <<" ", COMPLETION_MARK, " ">> \o Format04(Len(LastSource))
C5_TooLong == Len(Translate(tr, LastSource)) + Len(C5_Suffix) > MAX_TEXT_LENGTH

(* C5: when the translation and the suffix are over MAX_TEXT_LENGTH, the   *)
(* stored text is MAX_TEXT_LENGTH long, ends with the whole suffix and the *)
(* length read back from it is the source's; otherwise the translation is  *)
(* stored whole                                                            *)
C5_TruncationKeepsSuffix ==
    C5_Case =>
        LET stored == C5_Stored
            translated == Translate(tr, LastSource)
        IN IF C5_TooLong
           THEN /\ Len(stored) = MAX_TEXT_LENGTH
                /\ SubSeq(stored, Len(stored) - Len(C5_Suffix) + 1, Len(stored)) = C5_Suffix
                /\ SubSeq(stored, 1, Len(stored) - Len(C5_Suffix))
                      = SubSeq(translated, 1, Len(stored) - Len(C5_Suffix))
                /\ SourceLengthIn(stored) = Len(LastSource)
           ELSE stored = translated \o C5_Suffix

\* a translation that had to be cut has been stored
C5_Witness == C5_Case /\ C5_TooLong /\ Len(C5_Stored) = MAX_TEXT_LENGTH

-----------------------------------------------------------------------------
\* revert mode has rewritten a heading that create mode had translated
C6_Case ==
    /\ OnHeading
    /\ ~last.cfg.create_translation
    /\ Issued("update_block") # {}

(* C6: a heading that had N runs, with text and no mark, has after create  *)
(* and then revert exactly those N runs again, in order                    *)
C6_RevertRestoresRuns ==
    C6_Case =>
        /\ Len(node[last.block.id].rich_text) = Len(origin.node[last.block.id].rich_text)
        /\ node[last.block.id].rich_text = origin.node[last.block.id].rich_text
        /\ ops[1].arg = origin.node[last.block.id].rich_text

\* a heading of two runs went through create and revert
C6_Witness ==
    /\ C6_Case
    /\ Len(origin.node[last.block.id].rich_text) = 2
    /\ Len(last.block.rich_text) = 4
    /\ Len(node[last.block.id].rich_text) = 2

-----------------------------------------------------------------------------
\* the stripped text of what the last handler call handled
C7_Text == IF OnPage THEN Strip(last.pre.title[last.block.id]) ELSE LastSource

(* C7: a title, heading or block whose stripped text is empty gets no      *)
(* mutation of the store, in create mode and in revert mode                *)
C7_EmptyTextNoMutation ==
    (last.kind # "none" /\ C7_Text = <<>>) => \A i \in 1..Len(ops) : ~IsMutation(ops[i])

-----------------------------------------------------------------------------
C8_Collected == {page_blocks[i].id : i \in 1..Len(page_blocks)}
C8_SubPages == {p \in DOMAIN node : node[p].type = "child_page"}
C8_ChildrenOf(p) == {kids[p][k] : k \in 1..Len(kids[p])}

(* C8: with include_subpages the children of every sub-page are among the  *)
(* collected blocks; without it none of them is, the sub-page itself is,   *)
(* and the loop hands a sub-page to handle_page_block                      *)
C8_SubpagesCollected ==
    (pc \in {"title", "blocks"}) =>
        /\ cfg.include_subpages =>
              \A p \in C8_SubPages : C8_ChildrenOf(p) \subseteq C8_Collected
        /\ ~cfg.include_subpages =>
              \A p \in C8_SubPages :
                 /\ C8_ChildrenOf(p) \cap C8_Collected = {}
                 /\ p \in C8_ChildrenOf(Root) => p \in C8_Collected
        /\ (pc = "blocks" /\ idx > 1) =>
              /\ last.block = page_blocks[idx - 1]
              /\ last.kind = "page" <=> page_blocks[idx - 1].type = "child_page"

\* without include_subpages, the title of a sub-page has been translated
C8_Witness ==
    /\ pc = "blocks"
    /\ ~cfg.include_subpages
    /\ last.kind = "page"
    /\ last.block.type = "child_page"
    /\ C8_ChildrenOf(last.block.id) # {}
    /\ C8_ChildrenOf(last.block.id) \cap C8_Collected = {}
    /\ Issued("update_title") # {}
    /\ HasMark(title[last.block.id])

-----------------------------------------------------------------------------
\* the places in the blocks of a pass where a block with a translation child is
C9_Containers(d) ==
    {i \in 1..Len(d.blocks) : d.blocks[i].type \in RICH_TEXT_TYPES \ INLINE_TYPES}
C9_MarkedIn(st, id) == MarkedChildren(GetBlocks(st, id, FALSE))
\* the pass d handled the block (it had text, the realtime filter let it through)
C9_Handled(d, block) ==
    /\ Strip(GetBlockText(block)) # <<>>
    /\ ~(d.cfg.realtime /\ TooOld(block, d.time))

(* C9, as claimed: when a create pass has ended, no block of it has more   *)
(* than one marked child, blocks with empty text and blocks the realtime   *)
(* filter skips included                                                   *)
C9_AtMostOneMarkedChild ==
    (done # <<>> /\ done[1].cfg.create_translation) =>
        \A i \in C9_Containers(done[1]) :
           Len(C9_MarkedIn(done[1].st, done[1].blocks[i].id)) <= 1

(* C9, amended: when a create pass has ended, no block of it whose         *)
(* stripped text is not empty and which the realtime filter did not skip   *)
(* has more than one marked child                                          *)
C9_AtMostOneMarkedChildWhereHandled ==
    (done # <<>> /\ done[1].cfg.create_translation) =>
        \A i \in C9_Containers(done[1]) :
           C9_Handled(done[1], done[1].blocks[i]) =>
              Len(C9_MarkedIn(done[1].st, done[1].blocks[i].id)) <= 1

\* a create pass has ended on a block that started with three marked children
C9_Witness ==
    /\ done # <<>> /\ done[1].cfg.create_translation
    /\ \E i \in C9_Containers(done[1]) :
          /\ C9_Handled(done[1], done[1].blocks[i])
          /\ Len(C9_MarkedIn(origin, done[1].blocks[i].id)) = 3
          /\ Len(C9_MarkedIn(done[1].st, done[1].blocks[i].id)) = 1

-----------------------------------------------------------------------------
(* C10, as claimed: when a revert pass has ended, no block of it has a     *)
(* marked child; and revert mode writes nothing for a block without one    *)
C10_NoMarkedChildAfterRevert ==
    /\ (done # <<>> /\ ~done[1].cfg.create_translation) =>
          \A i \in C9_Containers(done[1]) :
             C9_MarkedIn(done[1].st, done[1].blocks[i].id) = <<>>
    /\ (OnContainer /\ ~last.cfg.create_translation /\ MarkedBefore = <<>>) => ops = <<>>

(* C10, amended: when a revert pass has ended, no block of it whose        *)
(* stripped text is not empty has a marked child; and revert mode writes   *)
(* nothing for a block without one                                         *)
C10_NoMarkedChildAfterRevertWhereText ==
    /\ (done # <<>> /\ ~done[1].cfg.create_translation) =>
          \A i \in C9_Containers(done[1]) :
             Strip(GetBlockText(done[1].blocks[i])) # <<>> =>
                C9_MarkedIn(done[1].st, done[1].blocks[i].id) = <<>>
    /\ (OnContainer /\ ~last.cfg.create_translation /\ MarkedBefore = <<>>) =>
          ops = <<>> /\ Store = last.pre

\* a revert pass has ended on a block that started with two marked children
C10_Witness ==
    /\ done # <<>> /\ ~done[1].cfg.create_translation
    /\ \E i \in C9_Containers(done[1]) :
          /\ Strip(GetBlockText(done[1].blocks[i])) # <<>>
          /\ Len(C9_MarkedIn(origin, done[1].blocks[i].id)) >= 2
          /\ C9_MarkedIn(done[1].st, done[1].blocks[i].id) = <<>>
          /\ Len(done[1].st.kids[done[1].blocks[i].id]) = 1

-----------------------------------------------------------------------------
\* the ids of the children the handled block had before the call
C11_ChildrenBefore ==
    {last.pre.kids[last.block.id][k] : k \in 1..Len(last.pre.kids[last.block.id])}

\* a mutation of the last call that is on a child of the handled block: a
\* child deleted or rewritten, or a child appended under the block
C11_OnChild(o) ==
    \/ o.op \in {"delete_block", "update_block"} /\ o.id \in C11_ChildrenBefore
    \/ o.op = "append_block_children" /\ o.id = last.block.id

(* C11: create mode writes nothing of the original.  For a block whose      *)
(* translation is a child, the block's own record and every title stay as   *)
(* they were and each mutation is on a child of it; for a heading, what is  *)
(* written is the N runs the block was read with, unchanged and in order,   *)
(* then the separator run, then the translation, and nothing else changes   *)
C11_CreateKeepsOriginal ==
    /\ (OnContainer /\ last.cfg.create_translation) =>
          /\ node[last.block.id] = last.pre.node[last.block.id]
          /\ title = last.pre.title
          /\ \A i \in 1..Len(ops) : IsMutation(ops[i]) => C11_OnChild(ops[i])
    /\ (OnHeading /\ last.cfg.create_translation) =>
          IF Issued("update_block") # {}
          THEN LET n == Len(last.block.rich_text)
                   written == node[last.block.id].rich_text
               IN /\ Len(written) = n + 2
                  /\ SubSeq(written, 1, n) = last.block.rich_text
                  /\ SubSeq(written, 1, n) = origin.node[last.block.id].rich_text
                  /\ written[n + 1] = <<" ", COMPLETION_MARK, " ">>
                  /\ written[n + 2] = Translate(tr, LastSource)
                  /\ kids = last.pre.kids /\ title = last.pre.title
                  /\ \A i \in DOMAIN node \ {last.block.id} : node[i] = last.pre.node[i]
          ELSE Store = last.pre

\* a create pass has ended that gave a heading of one run its two new runs
\* and a paragraph its translation child
C11_Witness ==
    /\ done # <<>> /\ done[1].cfg.create_translation
    /\ 1 \in DOMAIN node /\ 3 \in DOMAIN node
    /\ Len(origin.node[1].rich_text) = 1
    /\ Len(done[1].st.node[1].rich_text) = 3
    /\ origin.kids[3] = <<>>
    /\ done[1].st.kids[3] = <<FirstNewId>>
    /\ done[1].st.node[3] = origin.node[3]

-----------------------------------------------------------------------------
(* C12: in create mode with realtime set, a handler call on a block last   *)
(* edited more than five minutes before now calls no translator and writes *)
(* nothing, whether the block is a heading, a block with children or a     *)
(* sub-page (whose title is the text).  Stated of a text that is not empty *)
(* when stripped.                                                          *)
C12_StaleSkipped ==
    (/\ last.kind # "none"
     /\ last.block.type # "none"
     /\ last.cfg.create_translation
     /\ last.cfg.realtime
     /\ TooOld(last.block, last.time)
     /\ C7_Text # <<>>)
    => ops = <<>> /\ Store = last.pre

-----------------------------------------------------------------------------
(* C13: what create mode writes in the layout of a title or of a heading   *)
(* is within MAX_TEXT_LENGTH: the written title, and each run written to a *)
(* heading, the translated run among them.  Stated of a text that is not   *)
(* empty when stripped.                                                    *)
C13_WrittenWithinCap ==
    /\ (/\ OnPage
         /\ last.cfg.create_translation
         /\ C7_Text # <<>>
         /\ Issued("update_title") # {})
        => Len(title[last.block.id]) <= MAX_TEXT_LENGTH
    /\ (/\ OnHeading
         /\ last.cfg.create_translation
         /\ Issued("update_block") # {})
        => \A k \in 1..Len(node[last.block.id].rich_text) :
              Len(node[last.block.id].rich_text[k]) <= MAX_TEXT_LENGTH

-----------------------------------------------------------------------------
\* convert_page is about to call a handler
C14_AtHandler == pc = "title" \/ (pc = "blocks" /\ idx <= Len(page_blocks))

\* the writes the claim names
C14_Writes == {"update_title", "update_block", "append_block_children"}

\* a step of the program, as the claim has it
C14_Step ==
    /\ (C14_AtHandler /\ last'.raised) =>
          (/\ pc' = "raised"
           /\ ops' # <<>>
           /\ ops'[Len(ops')].op = "translate"
           /\ \A i \in 1..Len(ops') : ops'[i].op \notin C14_Writes
           /\ title' = title /\ node' = node /\ next_id' = next_id)
    /\ (pc' = "raised") => (C14_AtHandler /\ last'.raised)
    /\ (pc = "raised") =>
          (/\ pc' = "convert_page"
           /\ UNCHANGED <<title, node, kids, next_id, idx, page_blocks, ops, last>>)

(* C14: a handler call in which the translator's answer does not parse     *)
(* ends with the translator call as the last thing it did, has issued no   *)
(* update_title, update_block or append_block_children, has left every     *)
(* title and every block as it was, and leaves convert_page by the         *)
(* exception; from there no handler is called and the store is not         *)
(* touched: the only step is a new start of the program.  And convert_page *)
(* is left so by nothing else.                                             *)
C14_TranslatorFailureAborts == [][C14_Step]_vars

\* the translator failed on a block, with blocks of the pass still to come
C14_Witness ==
    /\ pc = "raised"
    /\ last.raised
    /\ last.kind = "normal"
    /\ Issued("translate") # {}
    /\ idx <= Len(page_blocks)
    /\ Store = last.pre

-----------------------------------------------------------------------------
\* create mode has handled a block with children and the translator has
\* answered: the translation was needed and was made
C15_Case ==
    /\ OnContainer
    /\ last.cfg.create_translation
    /\ Issued("translate") # {}
    /\ ~last.raised

(* C15: where create mode has translated the text of a block with          *)
(* children (the translator answering), a block that had a marked child    *)
(* gets one update_block, of the first marked child, and no                *)
(* append_block_children, and has no more children than before; a block    *)
(* that had none gets one append_block_children, of one new last child of  *)
(* it, and no update_block.  Where it has not translated, neither is       *)
(* issued.                                                                 *)
C15_UpdateOrAppend ==
    /\ C15_Case =>
          /\ Cardinality(Issued("translate")) = 1
          /\ IF MarkedBefore # <<>>
             THEN /\ Cardinality(Issued("update_block")) = 1
                  /\ \A i \in Issued("update_block") : ops[i].id = MarkedBefore[1].id
                  /\ Issued("append_block_children") = {}
                  /\ Len(kids[last.block.id]) <= Len(last.pre.kids[last.block.id])
                  /\ \E k \in 1..Len(kids[last.block.id]) :
                        kids[last.block.id][k] = MarkedBefore[1].id
                  /\ next_id = last.pre.next_id
             ELSE /\ Cardinality(Issued("append_block_children")) = 1
                  /\ \A i \in Issued("append_block_children") : ops[i].id = last.block.id
                  /\ Issued("update_block") = {}
                  /\ kids[last.block.id]
                        = Append(last.pre.kids[last.block.id], last.pre.next_id)
                  /\ next_id = last.pre.next_id + 1
    /\ (OnContainer /\ last.cfg.create_translation /\ ~C15_Case) =>
          Issued("update_block") \cup Issued("append_block_children") = {}

\* a translation child that an earlier pass had appended has been rewritten
\* in place, the user having changed the length of the text
C15_Witness ==
    /\ C15_Case
    /\ MarkedBefore # <<>>
    /\ MarkedBefore[1].id >= FirstNewId
    /\ Issued("update_block") # {}
    /\ kids[last.block.id] = last.pre.kids[last.block.id]

-----------------------------------------------------------------------------
\* create mode has handled a title or a heading whose text had the mark:
\* the stripped title as read from the store, the stripped text of the runs
\* of the block as convert_page collected it
C16_Case ==
    /\ last.kind # "none"
    /\ last.cfg.create_translation
    /\ \/ OnPage /\ HasMark(Strip(last.pre.title[last.block.id]))
       \/ OnHeading /\ HasMark(LastSource)

(* C16: in create mode, a handler call on a title or on a heading whose    *)
(* text has the mark calls the translator not once, writes nothing to the  *)
(* store and returns                                                       *)
C16_MarkedIsLeftAlone ==
    C16_Case => (ops = <<>> /\ Store = last.pre /\ ~last.raised)

\* a second create pass has come to a heading of two runs that the first
\* had translated
C16_Witness ==
    /\ C16_Case
    /\ OnHeading
    /\ ~LastSkippedAsOld
    /\ Len(last.block.rich_text) = 4
    /\ HasMark(last.pre.title[Root])
    /\ ops = <<>>

-----------------------------------------------------------------------------
\* the handler calls and returns a pass still has before it: one more than
\* the blocks it has collected and not yet handled, for the return of
\* convert_page; none when the program is not in a pass
C17_Remaining ==
    IF pc = "convert_page" THEN Len(GetBlocks(Store, Root, cfg.include_subpages)) + 3
    ELSE IF pc = "title" THEN Len(page_blocks) + 2
    ELSE IF pc = "blocks" THEN Len(page_blocks) + 2 - idx
    ELSE 0

\* a step of the program, as the claim has it: in a pass every step takes
\* from what remains of it; a pass that ends without an exception goes to
\* the delay when realtime is set and ends the program when it is not; the
\* delay is of SLEEP_SECONDS and is followed by the next pass, with the same
\* answers; and after the program has ended only a new start begins a pass
C17_Step ==
    /\ (C17_Remaining > 0) => (C17_Remaining' < C17_Remaining)
    /\ (pc = "blocks" /\ pc' \notin {"blocks", "raised"}) =>
          (/\ idx > Len(page_blocks)
           /\ pc' = IF cfg.realtime THEN "sleep" ELSE "idle")
    /\ (pc = "sleep" /\ pc' # "sleep") =>
          (/\ pc' = "convert_page"
           /\ now' = now + SLEEP_SECONDS
           /\ cfg' = cfg)
    /\ (pc' = "convert_page" /\ pc # "sleep") =>
          (pc \in {"idle", "raised"} /\ passes' = passes)
    /\ passes' = IF pc = "convert_page" THEN passes + 1 ELSE passes

(* C17: with realtime set (create mode only) a pass that ends is followed  *)
(* by the delay of 30 and the delay by the next pass, and the program does *)
(* not end but by an exception of a handler; with realtime not set the     *)
(* program makes one pass and ends.  A pass has a step to take as long as  *)
(* something remains of it, and every step takes from what remains: it     *)
(* comes to its end, or to an exception.                                   *)
C17_RunLoop ==
    /\ [][C17_Step]_vars
    /\ [](pc \in {"idle", "raised", "convert_page", "title", "blocks", "sleep"})
    /\ [](pc = "blocks" => idx <= Len(page_blocks) + 1)
    /\ [](cfg.realtime => cfg.create_translation)
    /\ [](pc = "sleep" => cfg.realtime)
    /\ [](pc = "idle" => ~cfg.realtime)

\* the second pass of a realtime run is about to begin, after the delay
C17_Witness ==
    /\ pc = "convert_page"
    /\ cfg.realtime
    /\ passes = 1
    /\ now = StartTime + SLEEP_SECONDS
    /\ done # <<>>

-----------------------------------------------------------------------------
(* C18: the blocks convert_page has collected, sub-pages included at any   *)
(* depth, have each block once: no two places of page_blocks hold the same *)
(* block, so that a pass hands no block to a handler twice                 *)
C18_EachBlockOnce ==
    (pc \in {"title", "blocks"}) =>
        \A i \in 1..Len(page_blocks) : \A j \in 1..Len(page_blocks) :
           page_blocks[i].id = page_blocks[j].id => i = j

-----------------------------------------------------------------------------
\* the children of block b in the store st whose text has no mark, in order
C19_Unmarked(st, b) ==
    SelectSeq(st.kids[b], LAMBDA c : ~HasMark(GetBlockText(Block(st, c))))

\* the blocks the program started on that have their translation in a child
C19_Containers ==
    {b \in DOMAIN origin.node : origin.node[b].type \in RICH_TEXT_TYPES \ INLINE_TYPES}

(* C19: a handler call on a block with children, in create mode and in     *)
(* revert mode, deletes and rewrites only children whose text had the      *)
(* mark; and whatever passes have run, the children without the mark that  *)
(* a block started with are its children without the mark now, the same    *)
(* blocks in the same order with the same content                          *)
C19_UnmarkedChildrenKept ==
    /\ OnContainer =>
          \A i \in Issued("delete_block") \cup Issued("update_block") :
             \E k \in 1..Len(MarkedBefore) : MarkedBefore[k].id = ops[i].id
    /\ \A b \in C19_Containers :
          LET unmarked == C19_Unmarked(origin, b)
          IN /\ C19_Unmarked(Store, b) = unmarked
             /\ \A k \in 1..Len(unmarked) : node[unmarked[k]] = origin.node[unmarked[k]]

\* a block that started with a child without the mark between two with it
\* has been through a create pass and a revert pass: that child is left
C19_Witness ==
    /\ passes = 2
    /\ Len(done) = 2
    /\ done[2].cfg.create_translation
    /\ ~done[1].cfg.create_translation
    /\ \E b \in C19_Containers :
          /\ Len(origin.kids[b]) = 3
          /\ HasMark(GetBlockText(Block(origin, origin.kids[b][1])))
          /\ ~HasMark(GetBlockText(Block(origin, origin.kids[b][2])))
          /\ HasMark(GetBlockText(Block(origin, origin.kids[b][3])))
          /\ Len(done[2].st.kids[b]) = 2
          /\ kids[b] = <<origin.kids[b][2]>>

-----------------------------------------------------------------------------
\* revert mode has handled a block with text that started with no marked
\* child and has the text it started with
C20_Case ==
    /\ OnContainer
    /\ ~last.cfg.create_translation
    /\ LastSource # <<>>
    /\ last.block.id \in C19_Containers
    /\ MarkedChildren(GetBlocks(origin, last.block.id, FALSE)) = <<>>
    /\ last.block.rich_text = origin.node[last.block.id].rich_text

(* C20: a block with text and no marked child that create mode and then    *)
(* revert mode have handled, its text the same throughout, has the         *)
(* children it started with: revert mode has deleted the one child create  *)
(* mode had appended, and the block and its other children are as they     *)
(* were                                                                    *)
C20_CreateRevertRestoresChildren ==
    C20_Case =>
        /\ Len(MarkedBefore) <= 1
        /\ ops = DeleteOps(MarkedBefore)
        /\ \A k \in 1..Len(MarkedBefore) :
              /\ MarkedBefore[k].id >= FirstNewId
              /\ last.pre.kids[last.block.id]
                    = Append(origin.kids[last.block.id], MarkedBefore[k].id)
        /\ kids[last.block.id] = origin.kids[last.block.id]
        /\ node[last.block.id] = origin.node[last.block.id]
        /\ \A k \in 1..Len(origin.kids[last.block.id]) :
              node[origin.kids[last.block.id][k]]
                 = origin.node[origin.kids[last.block.id][k]]

\* revert mode has deleted the child create mode had appended to a block
\* that has children of the user's
C20_Witness ==
    /\ C20_Case
    /\ Len(MarkedBefore) = 1
    /\ MarkedBefore[1].id = FirstNewId
    /\ Len(origin.kids[last.block.id]) >= 2
    /\ Len(last.pre.kids[last.block.id]) = Len(origin.kids[last.block.id]) + 1
    /\ kids[last.block.id] = origin.kids[last.block.id]
    /\ Issued("delete_block") # {}

====
